---- MODULE Spec2Model ----
(***************************************************************************)
(* FPL_PriceChanges: the daily price-diff run (.github/scripts/            *)
(* price_diff.py) and the X publisher (.github/scripts/post_to_x.py).      *)
(*                                                                         *)
(* Spec     - a sequence of price_diff.py runs against one snapshot        *)
(*            directory.                                                   *)
(* SpecPub  - one post_to_x.py pass over the chunk files of the two        *)
(*            groups, against an endpoint that answers each request with   *)
(*            any of the responses in Responses.                           *)
(* SpecRender - the message renderer of price_diff.py (the Telegram        *)
(*            message and the X chunks) on any changeset.                  *)
(* SpecPipe - runs of the renderer in one working directory, followed by   *)
(*            one post_to_x.py pass.                                       *)
(***************************************************************************)
EXTENDS Integers, Sequences, FiniteSets, TLC

VARIABLES
    \* ---- price_diff.py ----
    store,      \* data/snapshots: file name (ISO date) -> {str(pid): cost}
    clock,      \* the UTC day of the latest run (days never go backwards)
    runs,       \* number of runs started so far
    pc,         \* position of the current run inside main()
    players,    \* fetch_prices(): pid -> now_cost
    prev,       \* load_latest_snapshot(): str(pid) -> cost
    changes,    \* the change records, in feed order
    risers,     \* changes with delta > 0, ranked
    fallers,    \* changes with delta < 0, ranked
    \* ---- post_to_x.py ----
    files,      \* group -> the numbered chunk files x_status_<group>_<n>.txt
    softFallers,\* X_SOFT_FAIL_FALLERS
    ppc,        \* position of the publisher
    thread,     \* the group whose thread is being posted
    idx,        \* post_thread: idx
    parent_id,  \* post_thread: parent_id (0 is None)
    attempt,    \* post_with_retries: attempt
    last,       \* post_with_retries: the last response (last_status, last_text)
    hist,       \* kinds of the responses received for the current chunk
    payload,    \* post_thread: payload of the current chunk
    posted,     \* group -> chunks the endpoint accepted: [idx, reply, id]
    recorded,   \* group -> chunk indices post_thread reported as posted
    exhausted,  \* group -> chunk indices whose every attempt was retryable
    tstate,     \* group -> PENDING / SENDING / SUCCEEDED / FAILED
    failedAt,   \* group -> index of the chunk the thread failed at (0: none)
    nextId,     \* the next identifier the endpoint assigns
    \* ---- price_diff.py, rendering ----
    gw,         \* fetch_current_gw(): the gameweek (0 is None)
    items,      \* group -> the records handed to the renderer
    lines,      \* main(): lines of the Telegram message being trimmed
    hidden,     \* main(): hidden
    tg,         \* main(): tg, as [lines, hidden, len]
    rpc,        \* position of the renderer
    chunks,     \* group -> build_x_chunks(...)
    wrote       \* group -> number of chunk files the latest run wrote

diffVars == <<store, clock, runs, pc, players, prev, changes, risers, fallers>>
pubVars  == <<files, softFallers, ppc, thread, idx, parent_id, attempt, last,
              hist, payload, posted, recorded, exhausted, tstate, failedAt, nextId>>
rendVars == <<gw, items, lines, hidden, tg, rpc, chunks, wrote>>
vars     == <<diffVars, pubVars, rendVars>>

----------------------------------------------------------------------------
(* Bounds of the model *)

MaxPid  == 2      \* entity ids are 1..MaxPid
MaxRuns == 2      \* runs of price_diff.py, and the days they may fall on
MaxChunks == 2    \* chunk files per group
MaxItems == 2     \* records per group handed to the renderer alone

Pids   == 1..MaxPid
Days   == 1..MaxRuns
Prices == {45, 50}          \* now_cost, in tenths
Owns   == {0, 1}            \* selected_by_percent

----------------------------------------------------------------------------
(* Strings: a string is a sequence of code points *)

\* str(n) for a non-negative int: its decimal digits, as the code points '0'..'9'
RECURSIVE Str(_)
Str(n) == IF n < 10 THEN <<48 + n>> ELSE Str(n \div 10) \o <<48 + (n % 10)>>

\* lexicographic order on strings (Python's str <)
RECURSIVE StrLess(_, _)
StrLess(a, b) ==
    IF b = <<>> THEN FALSE
    ELSE IF a = <<>> THEN TRUE
    ELSE IF Head(a) # Head(b) THEN Head(a) < Head(b)
    ELSE StrLess(Tail(a), Tail(b))

\* str.lower() on ASCII letters
Lower(s) == [i \in 1..Len(s) |-> IF s[i] \in 65..90 THEN s[i] + 32 ELSE s[i]]

\* date.isoformat(): zero-padded fields, so that names sort chronologically.
\* The model's dates are the days of one month: "DD".
IsoFormat(d) == <<48 + (d \div 10), 48 + (d % 10)>>

\* web_name of each entity of the feed: "b", "A", "a", "Ab", ...
WebName(pid) ==
    CASE pid = 1 -> <<98>>
      [] pid = 2 -> <<65>>
      [] pid = 3 -> <<97>>
      [] OTHER   -> <<65, 98>>

\* team_short.get(team_id, "") of each entity: "ARS", "MCI"
TeamShort(pid) == IF pid % 2 = 1 THEN <<65, 82, 83>> ELSE <<77, 67, 73>>

----------------------------------------------------------------------------
(* Snapshot store *)

EmptyMap == <<>>

\* the feeds fetch_prices can return: any subset of the entities, any prices
Feeds == UNION {[S -> Prices] : S \in SUBSET Pids}

\* sorted(SNAP_DIR.glob("*.json"))[-1]: the greatest file name
LatestKey(st) == CHOOSE k \in DOMAIN st : \A j \in DOMAIN st : j = k \/ StrLess(j, k)

load_latest_snapshot(st) ==
    IF DOMAIN st = {} THEN EmptyMap ELSE st[LatestKey(st)]

\* Comp that loses the entity with the greatest id
CompSkipsLast(today_map) ==
    [k \in {Str(p) : p \in {q \in DOMAIN today_map : \E r \in DOMAIN today_map : r > q}} |->
        today_map[CHOOSE p \in DOMAIN today_map : Str(p) = k]]

\* comp = {str(pid): cost for ...}
Comp(today_map) ==
    [k \in {Str(p) : p \in DOMAIN today_map} |->
        today_map[CHOOSE p \in DOMAIN today_map : Str(p) = k]]

\* save_snapshot: open(snap_path, "w") creates the file or replaces its contents
save_snapshot(st, day, today_map) ==
    [k \in DOMAIN st \cup {IsoFormat(day)} |->
        IF k = IsoFormat(day) THEN Comp(today_map) ELSE st[k]]

----------------------------------------------------------------------------
(* Diff engine: main(), lines 160-185 *)

ChangeRecord(pid, old, cost, own) ==
    [id |-> pid, name |-> WebName(pid), team |-> TeamShort(pid),
     old |-> old, new |-> cost, delta |-> cost - old, ownership |-> own[pid]]

\* IsChange without the comparison of the two prices
IsChangeAnyKnown(pl, pv, pid) == Str(pid) \in DOMAIN pv

\* old = prev.get(str(pid)); if old is not None and old != cost
IsChange(pl, pv, pid) == Str(pid) \in DOMAIN pv /\ pv[Str(pid)] # pl[pid]

\* the loop over players.items(), in feed order (ascending id), from entity p on
RECURSIVE ChangesFrom(_, _, _, _)
ChangesFrom(p, pl, pv, own) ==
    IF p > MaxPid THEN <<>>
    ELSE IF p \in DOMAIN pl /\ IsChange(pl, pv, p)
         THEN <<ChangeRecord(p, pv[Str(p)], pl[p], own)>> \o ChangesFrom(p + 1, pl, pv, own)
         ELSE ChangesFrom(p + 1, pl, pv, own)

IsRiser(c)  == c.delta > 0
IsFaller(c) == c.delta < 0

\* key=lambda x: (-x.get("ownership", 0.0), x["name"].lower()), compared as tuples
KeyLess(a, b) ==
    \/ a.ownership > b.ownership
    \/ a.ownership = b.ownership /\ StrLess(Lower(a.name), Lower(b.name))

\* sorted() is stable: x goes after every element that is not greater than x
RECURSIVE InsertSorted(_, _)
InsertSorted(x, s) ==
    IF s = <<>> THEN <<x>>
    ELSE IF KeyLess(x, Head(s)) THEN <<x>> \o s
    ELSE <<Head(s)>> \o InsertSorted(x, Tail(s))

RECURSIVE Sorted(_)
Sorted(s) == IF s = <<>> THEN <<>> ELSE InsertSorted(s[Len(s)], Sorted(SubSeq(s, 1, Len(s) - 1)))

Risers(ch)  == Sorted(SelectSeq(ch, IsRiser))
Fallers(ch) == Sorted(SelectSeq(ch, IsFaller))

----------------------------------------------------------------------------
(* Message renderer.  A text is known by its length in code points and a line
   by [kind, group, id, len]; of a record the renderer reads the lengths of
   name and team, new and delta. *)

SAFE_BUDGET == 3900
TELEGRAM_HARD_LIMIT == 4096
max_len == 255
\* len(now_uk.strftime("%d-%m-%Y"))
DateLen == 10

Digits(n) == Len(Str(n))
Abs(n) == IF n < 0 THEN 0 - n ELSE n

\* len(money(tenths)): "£", the value with one decimal, "m"
MoneyLen(tenths) == 1 + Digits(tenths \div 10) + 2 + 1

\* len(f"+{delta/10:.1f}m") for a riser, len(f"{delta/10:.1f}m") for a faller:
\* the sign ("+" written, "-" of the number), the value with one decimal, "m"
DeltaLen(delta) == 1 + Digits(Abs(delta) \div 10) + 2 + 1

\* header_prefix: "GW{gw} — {date}" or the date
HeaderPrefixLen(g) == IF g # 0 THEN 2 + Digits(g) + 3 + DateLen ELSE DateLen

\* header_counts: f"{header_prefix} (Risers: {r}, Fallers: {f})"
HeaderCountsLen(g, r, f) == HeaderPrefixLen(g) + 10 + Digits(r) + 11 + Digits(f) + 1

\* head: f"<b>FPL Price Changes — {header_counts}</b>\n\n"
HeadLen(g, r, f) == 23 + HeaderCountsLen(g, r, f) + 6

\* tg without changes: f"<b>FPL Price Changes — {header_counts}</b>\n\nNo changes."
NoChangesLen(g) == HeadLen(g, 0, 0) + 11

Line(kind, group, id, len) == [kind |-> kind, group |-> group, id |-> id, len |-> len]
BlankLine == Line("blank", "", 0, 0)

\* "📈 <b>Risers</b>" and "📉 <b>Fallers</b>"
GroupHeader(group) == Line("header", group, 0, IF group = "risers" THEN 15 ELSE 16)

\* f"• <b>{name}</b> ({team}): {delta}m → {money(new)}"
TgBullet(group, c) ==
    Line("bullet", group, c.id,
         5 + c.nlen + 6 + c.tlen + 3 + DeltaLen(c.delta) + 3 + MoneyLen(c.new))

TgBullets(group, q) == [i \in 1..Len(q) |-> TgBullet(group, q[i])]

\* build_lines, lines 90-107
build_lines(rs, fs) ==
    LET top == IF rs # <<>> THEN <<GroupHeader("risers")>> \o TgBullets("risers", rs)
               ELSE <<>>
    IN  IF fs # <<>>
        THEN top \o (IF top # <<>> THEN <<BlankLine>> ELSE <<>>)
                 \o <<GroupHeader("fallers")>> \o TgBullets("fallers", fs)
        ELSE top

\* len("\n".join(lines_list))
RECURSIVE SumLen(_)
SumLen(q) == IF q = <<>> THEN 0 ELSE Head(q).len + SumLen(Tail(q))
JoinLen(q) == IF q = <<>> THEN 0 ELSE SumLen(q) + Len(q) - 1

\* extra: f"\n\n(+{hidden_count} more)" if hidden_count > 0 else ""
ExtraLen(h) == IF h > 0 THEN 2 + 2 + Digits(h) + 6 ELSE 0

\* assemble, lines 237-239
AssembleLen(headLen, q, h) == headLen + JoinLen(q) + ExtraLen(h)

\* the loop that stops at the hard limit of Telegram
TrimStopsAtHardLimit(headLen, q, h) ==
    AssembleLen(headLen, q, h) <= TELEGRAM_HARD_LIMIT \/ q = <<>>

\* line 243: len(msg) <= SAFE_BUDGET or not lines
TrimStops(headLen, q, h) == AssembleLen(headLen, q, h) <= SAFE_BUDGET \/ q = <<>>

\* a pop that removes nothing
PopKeeps(q) == q

\* lines.pop(): the list without its last line
Pop(q) == SubSeq(q, 1, Len(q) - 1)

\* lines 246-250: one pass of the loop that did not stop, on [lines, hidden]
TrimIter(st) ==
    LET removed == st.lines[Len(st.lines)]
        rest    == Pop(st.lines)
        h       == IF removed.len > 0 /\ removed.kind # "header"
                   THEN st.hidden + 1 ELSE st.hidden
    IN  IF removed.len = 0 /\ rest # <<>>
        THEN [lines |-> Pop(rest), hidden |-> h]
        ELSE [lines |-> rest, hidden |-> h]

Message(headLen, st) ==
    [lines |-> st.lines, hidden |-> st.hidden,
     len |-> AssembleLen(headLen, st.lines, st.hidden)]

NoMessage == [lines |-> <<>>, hidden |-> 0, len |-> 0]

\* header_risers / header_fallers, lines 256-261
XHeaderLen(group, g, n) ==
    (IF group = "risers" THEN 12 ELSE 13) + (IF g # 0 THEN 3 + Digits(g) ELSE 0)
    + 3 + DateLen + 4 + Digits(n) + 6

\* f"{emoji} {title}:" and f"{emoji} {title} (cont.)"
TitleLen(group) == IF group = "risers" THEN 9 ELSE 10
ContLen(group)  == IF group = "risers" THEN 16 ELSE 17

\* line 134: f"• {name} ({team}) {money(new)}"
XBullet(group, c) ==
    Line("bullet", group, c.id, 2 + c.nlen + 2 + c.tlen + 2 + MoneyLen(c.new))

\* "\n".join(lines).rstrip(): blank lines at the end go, and the newlines before
\* them (no other line of a chunk ends in white space)
RECURSIVE RStrip(_)
RStrip(q) ==
    IF q = <<>> THEN <<>>
    ELSE IF q[Len(q)].len = 0 THEN RStrip(SubSeq(q, 1, Len(q) - 1))
    ELSE q

\* text_len, lines 127-128
text_len(q) == JoinLen(RStrip(q))

\* the new chunk that forgets the bullet that did not fit
NextChunkLinesDrops(group, bullet) == <<Line("cont", group, 0, ContLen(group))>>

\* lines 142-143: current_lines = [cont_header, bullet]
NextChunkLines(group, bullet) == <<Line("cont", group, 0, ContLen(group)), bullet>>

\* lines 133-143: the loop over items, from item i on
RECURSIVE PackFrom(_, _, _, _, _)
PackFrom(group, q, i, current_lines, done) ==
    IF i > Len(q)
    THEN \* lines 145-146
         IF current_lines # <<>> THEN Append(done, RStrip(current_lines)) ELSE done
    ELSE LET bullet    == XBullet(group, q[i])
             candidate == Append(current_lines, bullet)
         IN  IF text_len(candidate) <= max_len
             THEN PackFrom(group, q, i + 1, candidate, done)
             ELSE PackFrom(group, q, i + 1, NextChunkLines(group, bullet),
                           Append(done, RStrip(current_lines)))

\* build_x_chunks, lines 110-148
build_x_chunks(group, g, q) ==
    IF q = <<>> THEN <<>>
    ELSE PackFrom(group, q, 1,
                  <<Line("xheader", group, 0, XHeaderLen(group, g, Len(q))), BlankLine,
                    Line("title", group, 0, TitleLen(group))>>,
                  <<>>)

----------------------------------------------------------------------------
(* One run of price_diff.py *)

\* positions of main() after line 158 and after line 185
AfterSave == {"diff", "gw", "write", "done", "failed"}
AfterDiff == {"gw", "write", "done", "failed"}

\* line 152: now_utc; the process starts
Begin ==
    /\ pc = "idle"
    /\ runs < MaxRuns
    /\ \E d \in Days : d >= clock /\ clock' = d
    /\ runs' = runs + 1
    /\ pc' = "fetch"
    /\ UNCHANGED <<store, players, prev, changes, risers, fallers, pubVars, rendVars>>

\* line 156: fetch_prices() returns the feed
FetchPrices ==
    /\ pc = "fetch"
    /\ \E f \in Feeds : players' = f
    /\ pc' = "load"
    /\ UNCHANGED <<store, clock, runs, prev, changes, risers, fallers, pubVars, rendVars>>

\* line 156: the request or raise_for_status() raises; main() exits with 1
FetchPricesFails ==
    /\ pc = "fetch"
    /\ pc' = "fetch_failed"
    /\ UNCHANGED <<store, clock, runs, players, prev, changes, risers, fallers, pubVars, rendVars>>

\* line 157
LoadLatest ==
    /\ pc = "load"
    /\ prev' = load_latest_snapshot(store)
    /\ pc' = "save"
    /\ UNCHANGED <<store, clock, runs, players, changes, risers, fallers, pubVars, rendVars>>

\* line 158
SaveSnapshot ==
    /\ pc = "save"
    /\ store' = save_snapshot(store, clock, players)
    /\ pc' = "diff"
    /\ UNCHANGED <<clock, runs, players, prev, changes, risers, fallers, pubVars, rendVars>>

\* lines 160-185
Diff ==
    /\ pc = "diff"
    /\ \E own \in [DOMAIN players -> Owns] :
          /\ changes' = ChangesFrom(1, players, prev, own)
          /\ risers'  = Risers(changes')
          /\ fallers' = Fallers(changes')
    /\ pc' = "gw"
    /\ UNCHANGED <<store, clock, runs, players, prev, pubVars, rendVars>>

\* line 188: fetch_current_gw() returns
FetchGw ==
    /\ pc = "gw"
    /\ pc' = "write"
    /\ UNCHANGED <<store, clock, runs, players, prev, changes, risers, fallers, pubVars, rendVars>>

\* line 188: fetch_current_gw() raises; main() exits with 1
FetchGwFails ==
    /\ pc = "gw"
    /\ pc' = "failed"
    /\ UNCHANGED <<store, clock, runs, players, prev, changes, risers, fallers, pubVars, rendVars>>

\* lines 196-278: the artifacts are rendered and written
WriteArtifacts ==
    /\ pc = "write"
    /\ pc' = "done"
    /\ UNCHANGED <<store, clock, runs, players, prev, changes, risers, fallers, pubVars, rendVars>>

\* lines 226-278: an open() or write() raises; main() exits with 1
WriteArtifactsFails ==
    /\ pc = "write"
    /\ pc' = "failed"
    /\ UNCHANGED <<store, clock, runs, players, prev, changes, risers, fallers, pubVars, rendVars>>

\* the process has ended; nothing but the snapshot directory survives it
Exit ==
    /\ pc \in {"done", "failed", "fetch_failed"}
    /\ pc' = "idle"
    /\ players' = EmptyMap
    /\ prev' = EmptyMap
    /\ changes' = <<>>
    /\ risers' = <<>>
    /\ fallers' = <<>>
    /\ UNCHANGED <<store, clock, runs, pubVars, rendVars>>

----------------------------------------------------------------------------
(* post_to_x.py: responses of the endpoint *)

Groups == {"fallers", "risers"}

max_attempts == 5

\* a status list that takes every 5xx for transient
RetryStatusesAny5xx == {429} \cup (500..599)

\* line 92
RetryStatuses == {429, 500, 502, 503, 504}

\* Bodies: "json" is {"data": {"id": ...}}; "html_challenge" is an HTML page
\* holding one of the markers; "html_plain" is an HTML page holding none;
\* "text" is an error body that is not HTML.
\* line 55: t.startswith("<!doctype html") or t.startswith("<html")
IsHtml(body)    == body \in {"html_challenge", "html_plain"}
\* line 56: "just a moment", "cf_chl", "challenge" or "cloudflare" in t
HasMarker(body) == body \in {"html_challenge"}

\* What the endpoint can answer: it accepts the post (201, with the assigned
\* identifier), serves a challenge page (under 200 or 403), or refuses with an
\* error status and a body that is text or an HTML page without marker.
Responses ==
    {[status |-> 201, body |-> "json"]}
    \cup {[status |-> s, body |-> "html_challenge"] : s \in {200, 403}}
    \cup {[status |-> s, body |-> "text"] : s \in {400, 429, 500, 501, 503}}
    \cup {[status |-> 403, body |-> "html_plain"]}

Accepted(resp)  == resp.body = "json"
Challenge(resp) == resp.body = "html_challenge"

\* what the endpoint did, for the history
Kind(resp) ==
    IF Accepted(resp) THEN "ok" ELSE IF Challenge(resp) THEN "challenge" ELSE "error"

NoResponse == [status |-> 0, body |-> "", id |-> 0]

looks_like_cloudflare(resp_text) ==
    IF resp_text = "" THEN FALSE
    ELSE IsHtml(resp_text) /\ HasMarker(resp_text)

\* Retryable that looks at the status only
RetryableByStatus(status, text) == status \in RetryStatuses

\* post_with_retries, lines 84-96: the response leads to "continue"
Retryable(status, text) ==
    looks_like_cloudflare(text) \/ status \in RetryStatuses

\* soft_fail of each post_thread call in main()
SoftFail(g) == IF g = "fallers" THEN softFallers ELSE TRUE

----------------------------------------------------------------------------
(* post_to_x.py: main() and post_thread() *)

\* post_thread(g) has returned or raised with state st; main() goes on
AfterThread(g, st, raised) ==
    /\ tstate' = IF g = "fallers" /\ ~raised
                 THEN [tstate EXCEPT ![g] = st, !["risers"] = "SENDING"]
                 ELSE [tstate EXCEPT ![g] = st]
    /\ IF g = "fallers" /\ raised
       THEN /\ ppc' = "aborted"
            /\ UNCHANGED <<thread, idx, parent_id>>
       ELSE IF g = "fallers"
       THEN /\ ppc' = "thread"
            /\ thread' = "risers"
            /\ idx' = 1
            /\ parent_id' = 0
       ELSE /\ ppc' = "done"
            /\ UNCHANGED <<thread, idx, parent_id>>

\* main() that posts the risers thread first
StartRisersFirst ==
    /\ ppc = "start"
    /\ ppc' = "thread"
    /\ thread' = "risers"
    /\ idx' = 1
    /\ parent_id' = 0
    /\ tstate' = [tstate EXCEPT !["risers"] = "SENDING"]
    /\ UNCHANGED <<files, softFallers, attempt, last, hist, payload, posted,
                   recorded, exhausted, failedAt, nextId, diffVars, rendVars>>

\* main(), line 166: post_thread(session, "x_status_fallers", ...)
StartFallers ==
    /\ ppc = "start"
    /\ ppc' = "thread"
    /\ thread' = "fallers"
    /\ idx' = 1
    /\ parent_id' = 0
    /\ tstate' = [tstate EXCEPT !["fallers"] = "SENDING"]
    /\ UNCHANGED <<files, softFallers, attempt, last, hist, payload, posted,
                   recorded, exhausted, failedAt, nextId, diffVars, rendVars>>

\* lines 109-115: the file does not exist; the thread is complete
ChunkMissing ==
    /\ ppc = "thread"
    /\ idx > Len(files[thread])
    /\ AfterThread(thread, "SUCCEEDED", FALSE)
    /\ UNCHANGED <<files, softFallers, attempt, last, hist, payload, posted,
                   recorded, exhausted, failedAt, nextId, diffVars, rendVars>>

\* lines 117-123: the file is empty; skip it
ChunkBlank ==
    /\ ppc = "thread"
    /\ idx <= Len(files[thread])
    /\ files[thread][idx] = "blank"
    /\ idx' = idx + 1
    /\ UNCHANGED <<files, softFallers, ppc, thread, parent_id, attempt, last, hist,
                   payload, posted, recorded, exhausted, tstate, failedAt, nextId,
                   diffVars, rendVars>>

\* lines 129-131: the payload, with the reply reference if parent_id is set
Payload(i, parent) == [idx |-> i, reply |-> parent]

\* lines 125-133, and 69-74: post_with_retries is entered
ChunkCompose ==
    /\ ppc = "thread"
    /\ idx <= Len(files[thread])
    /\ files[thread][idx] # "blank"
    /\ payload' = Payload(idx, parent_id)
    /\ attempt' = 1
    /\ last' = NoResponse
    /\ hist' = <<>>
    /\ ppc' = "post"
    /\ UNCHANGED <<files, softFallers, thread, idx, parent_id, posted, recorded,
                   exhausted, tstate, failedAt, nextId, diffVars, rendVars>>

\* lines 75-99: one session.post and what the loop does with its response
Attempt ==
    /\ ppc = "post"
    /\ \E resp \in Responses :
          /\ last' = [status |-> resp.status, body |-> resp.body,
                      id |-> IF Accepted(resp) THEN nextId ELSE 0]
          /\ hist' = Append(hist, Kind(resp))
          /\ IF Accepted(resp)
             THEN /\ posted' = [posted EXCEPT ![thread] =
                                   Append(@, [idx |-> payload.idx, reply |-> payload.reply,
                                              id |-> nextId])]
                  /\ nextId' = nextId + 1
             ELSE UNCHANGED <<posted, nextId>>
          /\ IF Retryable(resp.status, resp.body)
             THEN IF attempt < max_attempts
                  THEN /\ attempt' = attempt + 1
                       /\ UNCHANGED <<ppc, exhausted>>
                  ELSE /\ ppc' = "returned"
                       /\ exhausted' = [exhausted EXCEPT ![thread] = @ \cup {idx}]
                       /\ UNCHANGED attempt
             ELSE /\ ppc' = "returned"
                  /\ UNCHANGED <<attempt, exhausted>>
    /\ UNCHANGED <<files, softFallers, thread, idx, parent_id, payload, recorded,
                   tstate, failedAt, diffVars, rendVars>>

\* line 138
IsFailure(status) == status >= 400

\* ParseParent that never takes the new identifier
ParseParentKeeps(resp, parent) == parent

\* lines 146-150: data.get("id", parent_id); a body that is not JSON keeps parent_id
ParseParent(resp, parent) == IF resp.body = "json" THEN resp.id ELSE parent

\* lines 138-142: status >= 400 under soft_fail; post_thread returns False
ChunkFailedSoft ==
    /\ ppc = "returned"
    /\ IsFailure(last.status)
    /\ SoftFail(thread)
    /\ failedAt' = [failedAt EXCEPT ![thread] = idx]
    /\ AfterThread(thread, "FAILED", FALSE)
    /\ UNCHANGED <<files, softFallers, attempt, last, hist, payload, posted,
                   recorded, exhausted, nextId, diffVars, rendVars>>

\* lines 138-143: status >= 400 without soft_fail; RuntimeError leaves main()
ChunkFailedHard ==
    /\ ppc = "returned"
    /\ IsFailure(last.status)
    /\ ~SoftFail(thread)
    /\ failedAt' = [failedAt EXCEPT ![thread] = idx]
    /\ AfterThread(thread, "FAILED", TRUE)
    /\ UNCHANGED <<files, softFallers, attempt, last, hist, payload, posted,
                   recorded, exhausted, nextId, diffVars, rendVars>>

\* lines 145-153: the chunk counts as posted; on to the next one
ChunkPosted ==
    /\ ppc = "returned"
    /\ ~IsFailure(last.status)
    /\ parent_id' = ParseParent(last, parent_id)
    /\ recorded' = [recorded EXCEPT ![thread] = Append(@, idx)]
    /\ idx' = idx + 1
    /\ ppc' = "thread"
    /\ UNCHANGED <<files, softFallers, thread, attempt, last, hist, payload, posted,
                   exhausted, tstate, failedAt, nextId, diffVars, rendVars>>

----------------------------------------------------------------------------
(* price_diff.py: main(), lines 196-261, on a changeset of its own *)

HasChanges == items["risers"] # <<>> \/ items["fallers"] # <<>>
Head0 == HeadLen(gw, Len(items["risers"]), Len(items["fallers"]))

\* lines 229-232: no changes, no loop
RenderNoChanges ==
    /\ rpc = "start"
    /\ ~HasChanges
    /\ tg' = [lines |-> <<>>, hidden |-> 0, len |-> NoChangesLen(gw)]
    /\ rpc' = "chunks"
    /\ UNCHANGED <<gw, items, lines, hidden, chunks, wrote, diffVars, pubVars>>

\* lines 233-235: lines = build_lines(risers, fallers); hidden = 0
BuildLines ==
    /\ rpc = "start"
    /\ HasChanges
    /\ lines' = build_lines(items["risers"], items["fallers"])
    /\ hidden' = 0
    /\ rpc' = "trim"
    /\ UNCHANGED <<gw, items, tg, chunks, wrote, diffVars, pubVars>>

\* lines 241-250: a pass of the loop that does not stop
TrimPass ==
    /\ rpc = "trim"
    /\ ~TrimStops(Head0, lines, hidden)
    /\ lines' = TrimIter([lines |-> lines, hidden |-> hidden]).lines
    /\ hidden' = TrimIter([lines |-> lines, hidden |-> hidden]).hidden
    /\ UNCHANGED <<gw, items, tg, rpc, chunks, wrote, diffVars, pubVars>>

\* lines 243-245: tg = msg; break
TrimDone ==
    /\ rpc = "trim"
    /\ TrimStops(Head0, lines, hidden)
    /\ tg' = Message(Head0, [lines |-> lines, hidden |-> hidden])
    /\ rpc' = "chunks"
    /\ UNCHANGED <<gw, items, lines, hidden, chunks, wrote, diffVars, pubVars>>

\* lines 256-261: risers_chunks and fallers_chunks
BuildChunks ==
    /\ rpc = "chunks"
    /\ chunks' = [g \in Groups |-> build_x_chunks(g, gw, items[g])]
    /\ rpc' = "done"
    /\ UNCHANGED <<gw, items, lines, hidden, tg, wrote, diffVars, pubVars>>

\* the directory after a run wrote its chunks of group g: files 1..Len(cs)
\* are written anew, a file with a higher number stays as it was
FilesAfter(old, cs) ==
    [i \in 1..(IF Len(old) > Len(cs) THEN Len(old) ELSE Len(cs)) |->
        IF i <= Len(cs) THEN (IF JoinLen(cs[i]) > 0 THEN "text" ELSE "blank")
        ELSE old[i]]

\* lines 263-272: x_status_<group>_<idx>.txt for idx = 1..len(chunks)
WriteChunkFiles ==
    /\ rpc = "done"
    /\ files' = [g \in Groups |-> FilesAfter(files[g], chunks[g])]
    /\ wrote' = [g \in Groups |-> Len(chunks[g])]
    /\ rpc' = "written"
    /\ UNCHANGED <<gw, items, lines, hidden, tg, chunks, diffVars, softFallers, ppc,
                   thread, idx, parent_id, attempt, last, hist, payload, posted,
                   recorded, exhausted, tstate, failedAt, nextId>>

----------------------------------------------------------------------------
(* Specifications *)

RECURSIVE SeqsUpTo(_, _)
SeqsUpTo(S, n) ==
    IF n = 0 THEN {<<>>}
    ELSE SeqsUpTo(S, n - 1) \cup {Append(q, x) : q \in SeqsUpTo(S, n - 1), x \in S}

InitDiff ==
    /\ store = EmptyMap
    /\ clock = 1
    /\ runs = 0
    /\ pc = "idle"
    /\ players = EmptyMap
    /\ prev = EmptyMap
    /\ changes = <<>>
    /\ risers = <<>>
    /\ fallers = <<>>

InitPubIdle ==
    /\ ppc = "start"
    /\ thread = "fallers"
    /\ idx = 1
    /\ parent_id = 0
    /\ attempt = 1
    /\ last = NoResponse
    /\ hist = <<>>
    /\ payload = Payload(0, 0)
    /\ posted = [g \in Groups |-> <<>>]
    /\ recorded = [g \in Groups |-> <<>>]
    /\ exhausted = [g \in Groups |-> {}]
    /\ tstate = [g \in Groups |-> "PENDING"]
    /\ failedAt = [g \in Groups |-> 0]
    /\ nextId = 1

InitRendIdle ==
    /\ gw = 0
    /\ items = [g \in Groups |-> <<>>]
    /\ lines = <<>>
    /\ hidden = 0
    /\ tg = NoMessage
    /\ rpc = "idle"
    /\ chunks = [g \in Groups |-> <<>>]
    /\ wrote = [g \in Groups |-> 0]

\* a sequence of price_diff.py runs; nothing is published
Init ==
    /\ InitDiff
    /\ InitPubIdle
    /\ InitRendIdle
    /\ files = [g \in Groups |-> <<>>]
    /\ softFallers = FALSE

Next ==
    \/ Begin
    \/ FetchPrices
    \/ FetchPricesFails
    \/ LoadLatest
    \/ SaveSnapshot
    \/ Diff
    \/ FetchGw
    \/ FetchGwFails
    \/ WriteArtifacts
    \/ WriteArtifactsFails
    \/ Exit

Spec == Init /\ [][Next]_vars

\* one post_to_x.py pass over chunk files left in the working directory
InitPub ==
    /\ InitDiff
    /\ InitPubIdle
    /\ InitRendIdle
    /\ files \in [Groups -> SeqsUpTo({"text", "blank"}, MaxChunks)]
    /\ softFallers \in BOOLEAN

NextPub ==
    \/ StartFallers
    \/ ChunkMissing
    \/ ChunkBlank
    \/ ChunkCompose
    \/ Attempt
    \/ ChunkFailedSoft
    \/ ChunkFailedHard
    \/ ChunkPosted

SpecPub == InitPub /\ [][NextPub]_vars

\* the renderer on any changeset: names of a few lengths, the team a short
\* name of three letters, a price of 5.0 that moved by 0.1
NameLens == {5, 100, 1950, 4000}
Gws == {0, 12}

RenderItem(g, i, n) ==
    [id |-> IF g = "risers" THEN i ELSE MaxItems + i, nlen |-> n, tlen |-> 3,
     new |-> 50, delta |-> IF g = "risers" THEN 1 ELSE 0 - 1]

RenderItems(g) ==
    {[i \in 1..Len(q) |-> RenderItem(g, i, q[i])] : q \in SeqsUpTo(NameLens, MaxItems)}

InitRender ==
    /\ InitDiff
    /\ InitPubIdle
    /\ files = [g \in Groups |-> <<>>]
    /\ softFallers = FALSE
    /\ gw \in Gws
    /\ items \in [Groups -> RenderItems("risers") \cup RenderItems("fallers")]
    /\ \A g \in Groups : items[g] \in RenderItems(g)
    /\ lines = <<>>
    /\ hidden = 0
    /\ tg = NoMessage
    /\ rpc = "start"
    /\ chunks = [g \in Groups |-> <<>>]
    /\ wrote = [g \in Groups |-> 0]

NextRender ==
    \/ RenderNoChanges
    \/ BuildLines
    \/ TrimPass
    \/ TrimDone
    \/ BuildChunks
    \/ WriteChunkFiles

SpecRender == InitRender /\ [][NextRender]_vars

\* a run of the renderer starts in the working directory the runs before left
RenderBegin ==
    /\ rpc = "idle"
    /\ ppc = "start"
    /\ runs < MaxRuns
    /\ runs' = runs + 1
    /\ gw' \in Gws
    /\ items' \in [Groups -> RenderItems("risers") \cup RenderItems("fallers")]
    /\ \A g \in Groups : items'[g] \in RenderItems(g)
    /\ rpc' = "start"
    /\ UNCHANGED <<lines, hidden, tg, chunks, wrote, store, clock, pc, players, prev,
                   changes, risers, fallers, pubVars>>

\* the process has ended; of what it rendered only the files survive
RenderExit ==
    /\ rpc = "written"
    /\ gw' = 0
    /\ items' = [g \in Groups |-> <<>>]
    /\ lines' = <<>>
    /\ hidden' = 0
    /\ tg' = NoMessage
    /\ chunks' = [g \in Groups |-> <<>>]
    /\ rpc' = "idle"
    /\ UNCHANGED <<wrote, diffVars, pubVars>>

\* post_to_x.py is started once a run has ended
PublishStart ==
    /\ rpc = "idle"
    /\ runs > 0
    /\ StartFallers

\* runs of the renderer in one working directory, then one post_to_x.py pass.
\* build_x_chunks returns no blank chunk, so the pass never skips a file.
InitPipe ==
    /\ InitDiff
    /\ InitPubIdle
    /\ InitRendIdle
    /\ files = [g \in Groups |-> <<>>]
    /\ softFallers \in BOOLEAN

NextPipe ==
    \/ RenderBegin
    \/ RenderNoChanges
    \/ BuildLines
    \/ TrimPass
    \/ TrimDone
    \/ BuildChunks
    \/ WriteChunkFiles
    \/ RenderExit
    \/ PublishStart
    \/ ChunkMissing
    \/ ChunkCompose
    \/ Attempt
    \/ ChunkFailedSoft
    \/ ChunkFailedHard
    \/ ChunkPosted

SpecPipe == InitPipe /\ [][NextPipe]_vars

----------------------------------------------------------------------------
(* Properties *)

Range(q) == {q[i] : i \in DOMAIN q}
Ids(q)   == {q[i].id : i \in DOMAIN q}

\* the current entities whose string key is in the baseline with another price
Changed == {p \in DOMAIN players : Str(p) \in DOMAIN prev /\ prev[Str(p)] # players[p]}

\* C1: the changeset holds exactly one record for each current entity whose
\* str(id) is in the previous snapshot with a different price and none for any
\* other entity; risers are exactly the records with new > old, fallers exactly
\* those with new < old, disjoint, together every record with a nonzero delta.
C1_Changeset ==
    pc \in AfterDiff =>
        /\ Ids(changes) = Changed
        /\ Len(changes) = Cardinality(Changed)
        /\ \A i \in DOMAIN changes :
              /\ changes[i].old = prev[Str(changes[i].id)]
              /\ changes[i].new = players[changes[i].id]
        /\ Ids(risers) = {p \in Changed : players[p] > prev[Str(p)]}
        /\ Len(risers) = Cardinality(Ids(risers))
        /\ Ids(fallers) = {p \in Changed : players[p] < prev[Str(p)]}
        /\ Len(fallers) = Cardinality(Ids(fallers))
        /\ Range(risers) \cup Range(fallers) \subseteq Range(changes)
        /\ Ids(risers) \cap Ids(fallers) = {}
        /\ Ids(risers) \cup Ids(fallers) = {c.id : c \in {d \in Range(changes) : d.delta # 0}}

\* a run whose changeset has a riser and a faller
C1_Witness ==
    /\ pc \in AfterDiff
    /\ Len(risers) >= 1
    /\ Len(fallers) >= 1

\* the classification the retry loop is meant to apply, on the response itself
C2_RetryableResponse(resp) ==
    resp.body = "html_challenge" \/ resp.status \in {429, 500, 502, 503, 504}

C2_Permanent4xx(resp) ==
    resp.status \in 400..499 /\ resp.status # 429 /\ resp.body # "html_challenge"

\* C2: within one chunk another attempt follows a response exactly when the
\* response is retryable and fewer than max_attempts attempts were made, and the
\* loop stops at the first non-retryable response; challenge, challenge, success
\* is exactly 3 attempts and the chunk is posted without failing the thread; a
\* permanent 4xx other than 429 is exactly 1 attempt and the thread ends FAILED.
C2_RetryLoop ==
    /\ [](/\ attempt \in 1..max_attempts
          /\ ppc = "post" => /\ Len(hist) = attempt - 1
                             /\ attempt > 1 => C2_RetryableResponse(last)
          /\ ppc = "returned" =>
                /\ Len(hist) = attempt
                /\ C2_RetryableResponse(last) => attempt = max_attempts
                /\ hist = <<"challenge", "challenge", "ok">> => attempt = 3
                /\ (hist = <<"error">> /\ C2_Permanent4xx(last)) => attempt = 1)
    /\ [][ppc = "returned" =>
            /\ hist = <<"challenge", "challenge", "ok">> =>
                  /\ recorded'[thread] = Append(recorded[thread], idx)
                  /\ tstate'[thread] = "SENDING"
            /\ C2_Permanent4xx(last) =>
                  /\ tstate'[thread] = "FAILED"
                  /\ recorded'[thread] = recorded[thread]]_vars
    /\ [][(ppc = "thread" /\ idx > Len(files[thread])) =>
            tstate'[thread] = "SUCCEEDED"]_vars

\* the fallers thread was one chunk, answered challenge, challenge, success, and
\* has ended SUCCEEDED
C2_Witness ==
    /\ Len(files["fallers"]) = 1
    /\ tstate["fallers"] = "SUCCEEDED"
    /\ thread = "risers" /\ idx = 1 /\ ppc = "thread"
    /\ hist = <<"challenge", "challenge", "ok">>
    /\ recorded["fallers"] = <<1>>

\* C3: a chunk whose max_attempts attempts all got a retryable response is a
\* failure whatever the last status: it is never recorded as posted, the thread
\* does not go on to the next chunk, and the thread ends FAILED.
C3_ExhaustionFails ==
    \A g \in Groups : \A i \in exhausted[g] :
        /\ i \notin Range(recorded[g])
        /\ \/ ppc = "returned" /\ thread = g /\ idx = i
           \/ tstate[g] = "FAILED" /\ failedAt[g] = i

C5_FailedChunks(g) ==
    {i \in 1..Len(files[g]) :
        /\ i = failedAt[g] \/ i \in exhausted[g]
        /\ ~(ppc = "returned" /\ thread = g /\ idx = i)}

\* C5: when a thread ends in failure (a non-retryable error or retry
\* exhaustion): under soft-fail the failure is recorded, nothing propagates and
\* the run goes on to the next thread; under hard-fail the run aborts and the
\* next thread is never attempted.
C5_FailurePolicy ==
    \A g \in Groups : C5_FailedChunks(g) # {} =>
        /\ tstate[g] = "FAILED"
        /\ IF SoftFail(g)
           THEN /\ ppc # "aborted"
                /\ g = "fallers" => tstate["risers"] # "PENDING"
           ELSE /\ ppc = "aborted"
                /\ tstate["risers"] = "PENDING"
                /\ posted["risers"] = <<>>

\* C5 for the failures post_thread sees as status >= 400
C5_PolicyOnStatusFailure ==
    \A g \in Groups : failedAt[g] # 0 =>
        /\ tstate[g] = "FAILED"
        /\ IF SoftFail(g)
           THEN /\ ppc # "aborted"
                /\ g = "fallers" => tstate["risers"] # "PENDING"
           ELSE /\ ppc = "aborted"
                /\ tstate["risers"] = "PENDING"
                /\ posted["risers"] = <<>>

Ended(g) == tstate[g] \in {"SUCCEEDED", "FAILED"}

\* C6: fallers are published before risers: no risers chunk is attempted before
\* the fallers thread has ended, and what the fallers thread posted stays as it
\* is, whatever happens in the risers thread.
C6_ThreadOrder ==
    /\ [](/\ tstate["risers"] # "PENDING" => Ended("fallers")
          /\ (thread = "risers" /\ ppc # "start") => Ended("fallers")
          /\ ~Ended("fallers") => posted["risers"] = <<>> /\ recorded["risers"] = <<>>)
    /\ [][Ended("fallers") =>
            /\ posted'["fallers"] = posted["fallers"]
            /\ recorded'["fallers"] = recorded["fallers"]
            /\ tstate'["fallers"] = tstate["fallers"]]_vars

\* the fallers thread posted a chunk and the risers thread then failed
C6_Witness ==
    /\ Len(posted["fallers"]) >= 1
    /\ tstate["risers"] = "FAILED"
    /\ ppc = "done"

\* C7 as stated: 429, any 5xx and a challenge page are retried; a client error
\* other than 429 (that is no challenge page) is not.
C7_Any5xxRetried ==
    /\ (ppc = "returned" /\ attempt < max_attempts) =>
          ~(last.status = 429 \/ last.status \in 500..599 \/ last.body = "html_challenge")
    /\ (ppc = "post" /\ attempt > 1) => ~C2_Permanent4xx(last)

\* C7, amended: a response is retried iff it is a challenge page, a 429, or a
\* 500, 502, 503 or 504; every other response ends the loop at once.
C7_Classification ==
    /\ (ppc = "returned" /\ attempt < max_attempts) =>
          ~(last.status \in {429, 500, 502, 503, 504} \/ last.body = "html_challenge")
    /\ (ppc = "post" /\ attempt > 1) =>
          (last.status \in {429, 500, 502, 503, 504} \/ last.body = "html_challenge")
    /\ (ppc = "returned" /\ attempt = max_attempts) =>
          ((idx \in exhausted[thread]) <=>
              (last.status \in {429, 500, 502, 503, 504} \/ last.body = "html_challenge"))

\* an error status was retried and the 501 that followed ended the loop at the
\* second attempt
C7_Witness ==
    /\ ppc = "returned"
    /\ attempt = 2
    /\ hist = <<"error", "error">>
    /\ last.status = 501

\* the most recent snapshot whose file name is strictly older than key
StrictlyOlder(st, key) ==
    LET older == {k \in DOMAIN st : StrLess(k, key)}
    IN  IF older = {} THEN EmptyMap
        ELSE st[CHOOSE k \in older : \A j \in older : j = k \/ StrLess(j, k)]

\* C8: the baseline of a run is the most recent snapshot whose date key is
\* strictly older than the date key the run writes (empty if there is none), never
\* a snapshot stored under the run's own date key.
C8_BaselineStrictlyOlder ==
    pc \in {"save"} \cup AfterSave => prev = StrictlyOlder(store, IsoFormat(clock))

\* C9: an entry of the snapshot store never changes once it exists; save_snapshot
\* only adds an entry under a date key that was not there.
C9_SnapshotsImmutable ==
    [][\A k \in DOMAIN store : k \in DOMAIN store' /\ store'[k] = store[k]]_vars

\* C10: from the save that follows the fetch to the end of the run, whatever
\* fails later, the store holds under the run's date the current observations
\* reduced to {str(id): price}.
C10_SnapshotKept ==
    pc \in AfterSave =>
        /\ IsoFormat(clock) \in DOMAIN store
        /\ LET snap == store[IsoFormat(clock)]
           IN  /\ \A p \in DOMAIN players : Str(p) \in DOMAIN snap /\ snap[Str(p)] = players[p]
               /\ \A k \in DOMAIN snap : \E p \in DOMAIN players : k = Str(p)

\* a run that failed after the save, on a day that already had a snapshot with
\* other prices
C10_Witness ==
    /\ pc = "failed"
    /\ runs = 2
    /\ DOMAIN store = {IsoFormat(clock)}
    /\ Cardinality(DOMAIN players) = 2
    /\ Len(changes) >= 1

\* C11: a feed with no entity makes the run fail, and no snapshot written
\* from such a feed is the baseline of a later run.
C11_EmptyFeedIsError ==
    /\ pc \in {"load", "save", "diff", "gw", "write", "done"} => players # EmptyMap
    /\ (pc = "save" /\ DOMAIN store # {}) => prev # EmptyMap

\* C17: in one thread the chunks that are not blank are attempted in
\* increasing order, a chunk is attempted only when the endpoint accepted every
\* earlier chunk that is not blank, and nothing is attempted in a thread after
\* a chunk of it failed.
C17_AttemptAfterDelivery ==
    /\ \A g \in Groups : \A k \in DOMAIN recorded[g] :
          k > 1 => recorded[g][k] > recorded[g][k - 1]
    /\ ppc \in {"post", "returned"} =>
          /\ failedAt[thread] = 0
          /\ \A j \in 1..(idx - 1) :
                files[thread][j] # "blank" =>
                    \E k \in DOMAIN posted[thread] : posted[thread][k].idx = j

----------------------------------------------------------------------------
(* Renderer *)

BulletIdsOf(q) ==
    LET b == SelectSeq(q, LAMBDA l : l.kind = "bullet")
    IN  [i \in 1..Len(b) |-> b[i].id]

ItemIds(q) == [i \in 1..Len(q) |-> q[i].id]

RECURSIVE Flatten(_)
Flatten(cs) == IF cs = <<>> THEN <<>> ELSE BulletIdsOf(Head(cs)) \o Flatten(Tail(cs))

AllBullets == Len(items["risers"]) + Len(items["fallers"])

\* C12: the message the trimming loop ends with (title, remaining lines and
\* the trailer when bullets are hidden) is never longer than SAFE_BUDGET.
C12_WithinBudget ==
    (rpc \in {"chunks", "done"} /\ HasChanges) =>
        /\ tg.len = Head0 + JoinLen(tg.lines) + ExtraLen(tg.hidden)
        /\ tg.len <= SAFE_BUDGET

\* a changeset longer than the budget was trimmed to a message that still
\* shows a bullet and carries the trailer
C12_Witness ==
    /\ rpc = "done"
    /\ AssembleLen(Head0, build_lines(items["risers"], items["fallers"]), 0) > SAFE_BUDGET
    /\ tg.hidden > 0
    /\ BulletIdsOf(tg.lines) # <<>>

\* C13: the N of the trailer is the number of bullet lines of the full line
\* sequence that are absent from the final message.
C13_HiddenCountsBullets ==
    rpc \in {"chunks", "done"} =>
        tg.hidden = AllBullets - Len(BulletIdsOf(tg.lines))

\* C14: in the final message every group header is followed by a bullet of
\* its group.
C14_NoOrphanHeader ==
    rpc \in {"chunks", "done"} =>
        \A i \in 1..Len(tg.lines) :
            tg.lines[i].kind = "header" =>
                /\ i < Len(tg.lines)
                /\ tg.lines[i + 1].kind = "bullet"
                /\ tg.lines[i + 1].group = tg.lines[i].group

\* C15: no chunk of build_x_chunks is longer than max_len.
C15_ChunkWithinMaxLen ==
    rpc = "done" =>
        \A g \in Groups : \A k \in 1..Len(chunks[g]) : JoinLen(chunks[g][k]) <= max_len

\* C16: the bullets of a group's chunks, taken in chunk order, are the
\* group's records in changeset order, each once.
C16_ChunksCarryAllBullets ==
    rpc = "done" => \A g \in Groups : Flatten(chunks[g]) = ItemIds(items[g])

\* a group was split: a bullet did not fit and opened a continuation chunk
C16_Witness ==
    /\ rpc = "done"
    /\ \E g \in Groups :
          /\ Len(chunks[g]) >= 2
          /\ Len(items[g]) >= 2
          /\ chunks[g][Len(chunks[g])][1].kind = "cont"
          /\ BulletIdsOf(chunks[g][1]) # <<>>

\* C18: every chunk of a group with records has a bullet line, and a group
\* without records has no chunk.
C18_NoHeaderOnlyChunk ==
    rpc = "done" =>
        \A g \in Groups :
            /\ \A k \in 1..Len(chunks[g]) : BulletIdsOf(chunks[g][k]) # <<>>
            /\ items[g] = <<>> => chunks[g] = <<>>

\* C19: a pass of the trimming loop that does not stop leaves fewer lines
\* than it found, and the loop stops once the message fits or no line is left.
C19_TrimShrinks ==
    [][/\ (rpc = "trim" /\ ~TrimStops(Head0, lines, hidden)) =>
              (rpc' = "trim" /\ Len(lines') < Len(lines))
       /\ (rpc = "trim" /\ TrimStops(Head0, lines, hidden)) => rpc' = "chunks"]_vars

\* the loop ran more than one pass and stopped with lines left
C19_Witness ==
    /\ rpc = "chunks"
    /\ tg.hidden >= 2
    /\ tg.lines # <<>>

----------------------------------------------------------------------------
(* Renderer and publisher *)

\* C20: after any runs of the renderer in one working directory, the chunks
\* the publisher posts for a group are chunks the latest run rendered for it,
\* in order: a chunk file of a higher number left by an earlier run is not posted.
C20_OnlyLatestChunksPosted ==
    \A g \in Groups : \A k \in DOMAIN posted[g] :
        /\ posted[g][k].idx <= wrote[g]
        /\ k > 1 => posted[g][k].idx > posted[g][k - 1].idx
====
